---------------------------- MODULE Spec2Model ----------------------------
(***************************************************************************)
(* EV range simulator (src/simulator.py).                                  *)
(*                                                                         *)
(* A Simulation owns a clock (time, duration) and a Car.  Simulation.start *)
(* calls Simulation.tick while not is_done(); every Simulation.tick calls  *)
(* Car.tick(time, duration), which either drives or charges for one tick   *)
(* and appends one entry to each of the three history lists.               *)
(*                                                                         *)
(* Energies and distances are exact quantities measured in whole units:    *)
(* one unit of energy is battery_capacity / (the value drawn in Init), so  *)
(* the ratios between energy_usage_per_tick, charge_speed_per_tick and     *)
(* battery_capacity range over the small rationals the bounds allow.       *)
(***************************************************************************)
EXTENDS Integers, Sequences, FiniteSets

\* ---- bounds of the model ------------------------------------------------
MaxTicks == 6
MaxCapacity == 5
MaxEnergyPerTick == 6
MaxChargePerTick == 3
MaxDistancePerTick == 2

VARIABLES
    pc,                        \* position of Simulation.start
    time,                      \* Simulation.time
    duration,                  \* Simulation.duration (total ticks N)
    time_factor,               \* Car.time_factor
    charging,                  \* Car.charging
    battery_capacity,          \* Car.battery_capacity
    battery_charge,            \* Car.battery_charge
    battery_charge_total,      \* Car.battery_charge_total
    energy_usage_per_tick,     \* Car.energy_usage_per_tick
    charge_speed_per_tick,     \* Car.charge_speed_per_tick
    number_of_charging_stops,  \* Car.number_of_charging_stops
    distance_driven,           \* Car.distance_driven
    distance_per_tick,         \* Car.distance_per_tick
    time_history,              \* Car.time_history
    charge_level_history,      \* Car.charge_level_history
    distance_driven_history,   \* Car.distance_driven_history
    mode_history,              \* branch taken by Car.tick at each tick
    charging_history           \* Car.charging at the end of each tick

carParams == <<time_factor, battery_capacity, energy_usage_per_tick,
               charge_speed_per_tick, distance_per_tick>>

vars == <<pc, time, duration, time_factor, charging, battery_capacity,
          battery_charge, battery_charge_total, energy_usage_per_tick,
          charge_speed_per_tick, number_of_charging_stops, distance_driven,
          distance_per_tick, time_history, charge_level_history,
          distance_driven_history, mode_history, charging_history>>

\* ---- Car: pure parts ------------------------------------------------------

\* Variants of the line-47 condition: without the charging flag, with a
\* strict comparison, looking two ticks ahead, and without the look-ahead.
NeedsCharge_NoFlag(chg, charge, usage) == (charge - usage) <= 0

NeedsCharge_Strict(chg, charge, usage) == chg \/ (charge - usage) < 0

NeedsCharge_TwoAhead(chg, charge, usage) == chg \/ (charge - 2 * usage) <= 0

NeedsCharge_NoLookAhead(chg, charge, usage) == chg \/ charge <= 0

\* Car.tick, line 47: the condition that selects charge() over drive().
NeedsCharge(chg, charge, usage) == chg \/ (charge - usage) <= 0

\* Variant of line 57 with the sign of the usage flipped.
DriveCharge_Add(charge, usage) == charge + usage

\* Car.drive, line 57.
DriveCharge(charge, usage) == charge - usage

\* Variant of line 58 with the sign of the increment flipped.
DriveDistance_Sub(driven, perTick) == driven - perTick

\* Car.drive, line 58.
DriveDistance(driven, perTick) == driven + perTick

\* Variant of lines 61-63 that counts every charging tick.
ChargeStops_EveryTick(chg, stops) == stops + 1

\* Car.charge, lines 61-63: the stop counter after entering charge().
ChargeStops(chg, stops) == IF ~chg THEN stops + 1 ELSE stops

\* Car.charge, line 65.
ChargeCharge(charge, speed) == charge + speed

\* Variant of line 66 that leaves the cumulative charge alone.
ChargeTotal_Missing(total, speed) == total

\* Car.charge, line 66.
ChargeTotal(total, speed) == total + speed

\* Variant of lines 52-54 that inserts at the front.
Record_Prepend(history, value) == <<value>> \o history

\* Car.tick, lines 52-54: one append to a history list.
Record(history, value) == Append(history, value)

\* Variant of line 72 without the one-tick look-ahead.
is_fully_charged_NoLookAhead(charge, speed, capacity) == charge > capacity

\* Car.is_fully_charged, lines 71-72.
is_fully_charged(charge, speed, capacity) == (charge + speed) > capacity

\* Car.is_sufficiently_charged, lines 74-76.
is_sufficiently_charged(charge, usage, t, total_duration) ==
    LET remaining_time == total_duration - t
    IN  charge > (remaining_time * usage)

\* Variants of lines 68-69: only the fully-charged test, and both tests
\* required at once.
ChargeFlag_OnlyFull(charge, speed, capacity, usage, t, total_duration) ==
    ~is_fully_charged(charge, speed, capacity)

ChargeFlag_And(charge, speed, capacity, usage, t, total_duration) ==
    ~(is_fully_charged(charge, speed, capacity)
      /\ is_sufficiently_charged(charge, usage, t, total_duration))

\* Car.charge, lines 68-69: the charging flag at the end of charge().
ChargeFlag(charge, speed, capacity, usage, t, total_duration) ==
    ~(is_fully_charged(charge, speed, capacity)
      \/ is_sufficiently_charged(charge, usage, t, total_duration))

\* Variant of line 23 that stops one tick early.
is_done_OffByOne == time >= duration

\* Simulation.is_done, lines 22-23.
is_done == time > duration

\* ---- reporting ------------------------------------------------------------

\* Python's true division a / b: the exact quotient, kept as the fraction
\* num/den, or a ZeroDivisionError when b is 0.
Div(a, b) == [ok |-> b # 0, num |-> a, den |-> b]

\* Car.status_text, lines 95-96: the guarded energy per km (the literal 0 of
\* the else branch is the fraction 0/1).
energy_per_km ==
    IF distance_driven # 0
    THEN Div(battery_charge_total - battery_charge, distance_driven)
    ELSE Div(0, 1)

\* Car.status_text, lines 94-113: the computed fields of the report; the
\* report is produced only if no division of lines 95-112 raises.
status_text(dur) ==
    LET charge_speed  == Div(charge_speed_per_tick, time_factor)
        usage_hour    == Div(energy_usage_per_tick, time_factor)
        target_speed  == Div(distance_per_tick, time_factor)
        average_speed == Div(distance_driven, dur * time_factor)
        ticks_hour    == Div(1, time_factor)
    IN  [ok |-> /\ energy_per_km.ok
                /\ charge_speed.ok
                /\ usage_hour.ok
                /\ target_speed.ok
                /\ dur # 0
                /\ average_speed.ok
                /\ ticks_hour.ok,
         energy_per_km |-> energy_per_km,
         number_of_charging_stops |-> number_of_charging_stops,
         distance_driven |-> distance_driven]

\* ---- initial state --------------------------------------------------------

\* Simulation.__init__ (lines 6-10) and Car.__init__ (lines 31-44) for the
\* constructor arguments: the three per-tick constants are the per-hour
\* quantities times time_factor, the battery is full, nothing is driven and
\* the histories are empty.  power stands for
\* power_for_velocity(distance_per_hour / 3.6).
Construct(total_duration, tf, capacity, power, charge_speed_per_hour, distance_per_hour) ==
    /\ pc = "init"
    /\ time = 1
    /\ duration = total_duration
    /\ time_factor = tf
    /\ charging = FALSE
    /\ battery_capacity = capacity
    /\ battery_charge = capacity
    /\ battery_charge_total = capacity
    /\ energy_usage_per_tick = power * tf
    /\ charge_speed_per_tick = charge_speed_per_hour * tf
    /\ number_of_charging_stops = 0
    /\ distance_driven = 0
    /\ distance_per_tick = distance_per_hour * tf
    /\ time_history = <<>>
    /\ charge_level_history = <<>>
    /\ distance_driven_history = <<>>
    /\ mode_history = <<>>
    /\ charging_history = <<>>

\* Runs with a positive tick fraction (one unit), a positive speed, hence a
\* positive power draw, and a positive charge rate.
Init ==
    \E total_duration \in 0..MaxTicks,
       capacity \in 1..MaxCapacity,
       power \in 1..MaxEnergyPerTick,
       charge_speed_per_hour \in 1..MaxChargePerTick,
       distance_per_hour \in 1..MaxDistancePerTick :
        Construct(total_duration, 1, capacity, power, charge_speed_per_hour,
                  distance_per_hour)

\* Power draws power_for_velocity (lines 116-132) can return for a speed: the
\* standby power alone at speed 0, more than that at a positive speed, less
\* (down to negative values) at a negative speed.
PowerRange(distance_per_hour) ==
    IF distance_per_hour >= 0
    THEN 1..MaxEnergyPerTick
    ELSE (-1)..MaxEnergyPerTick

\* Every configuration the constructors accept, which is every configuration:
\* they check nothing, so the tick fraction may be 0 and the speed may be zero
\* or negative.
InitAnyConfig ==
    \E total_duration \in 1..MaxTicks,
       tf \in 0..1,
       capacity \in 1..MaxCapacity,
       charge_speed_per_hour \in 1..MaxChargePerTick,
       distance_per_hour \in (-1)..MaxDistancePerTick :
        \E power \in PowerRange(distance_per_hour) :
            Construct(total_duration, tf, capacity, power,
                      charge_speed_per_hour, distance_per_hour)

\* ---- actions --------------------------------------------------------------

\* Simulation.start, lines 13-14: the report before the loop; a
\* ZeroDivisionError raised by status_text ends start() there.
Start ==
    /\ pc = "init"
    /\ pc' = IF status_text(duration).ok THEN "loop" ELSE "error"
    /\ UNCHANGED <<time, duration, charging, battery_charge,
                   battery_charge_total, number_of_charging_stops,
                   distance_driven, time_history, charge_level_history,
                   distance_driven_history, mode_history, charging_history,
                   carParams>>

\* Variant of Car.drive that also books the used energy on the cumulative
\* charge.
drive_TouchesTotal ==
    /\ battery_charge' = DriveCharge(battery_charge, energy_usage_per_tick)
    /\ distance_driven' = DriveDistance(distance_driven, distance_per_tick)
    /\ battery_charge_total' = battery_charge_total - energy_usage_per_tick
    /\ UNCHANGED <<charging, number_of_charging_stops>>

\* Car.drive, lines 56-58.
drive ==
    /\ battery_charge' = DriveCharge(battery_charge, energy_usage_per_tick)
    /\ distance_driven' = DriveDistance(distance_driven, distance_per_tick)
    /\ UNCHANGED <<charging, battery_charge_total, number_of_charging_stops>>

\* Car.charge, lines 60-69.
charge(t, total_duration) ==
    LET charged == ChargeCharge(battery_charge, charge_speed_per_tick)
    IN  /\ number_of_charging_stops' =
               ChargeStops(charging, number_of_charging_stops)
        /\ battery_charge' = charged
        /\ battery_charge_total' =
               ChargeTotal(battery_charge_total, charge_speed_per_tick)
        /\ charging' = ChargeFlag(charged, charge_speed_per_tick,
                                  battery_capacity, energy_usage_per_tick,
                                  t, total_duration)
        /\ UNCHANGED distance_driven

\* One iteration of the loop of Simulation.start: Simulation.tick, which is
\* Car.tick(time, duration) (charge or drive, then the three appends) followed
\* by time += 1.
SimTick ==
    /\ pc = "loop"
    /\ ~is_done
    /\ IF NeedsCharge(charging, battery_charge, energy_usage_per_tick)
       THEN /\ charge(time, duration)
            /\ mode_history' = Append(mode_history, "charge")
       ELSE /\ drive
            /\ mode_history' = Append(mode_history, "drive")
    /\ time_history' = Record(time_history, time)
    /\ charge_level_history' = Record(charge_level_history, battery_charge')
    /\ distance_driven_history' =
           Record(distance_driven_history, distance_driven')
    /\ charging_history' = Append(charging_history, charging')
    /\ time' = time + 1
    /\ UNCHANGED <<pc, duration, carParams>>

\* Simulation.start, lines 16-20: is_done() holds, the loop is left and the
\* final report and plot are produced from the unchanged state.
Finish ==
    /\ pc = "loop"
    /\ is_done
    /\ pc' = IF status_text(duration).ok THEN "done" ELSE "error"
    /\ UNCHANGED <<time, duration, charging, battery_charge,
                   battery_charge_total, number_of_charging_stops,
                   distance_driven, time_history, charge_level_history,
                   distance_driven_history, mode_history, charging_history,
                   carParams>>

Next == Start \/ SimTick \/ Finish

Spec == Init /\ [][Next]_vars

\* The loop of Simulation.start is sequential code with no suspension point:
\* whenever a step is possible it is eventually taken.
FairSpec == Spec /\ WF_vars(Next)

\* The same program started from any configuration the constructors accept.
ConfigSpec == InitAnyConfig /\ [][Next]_vars

TypeOK ==
    /\ pc \in {"init", "loop", "done", "error"}
    /\ time \in 1..(MaxTicks + 1)
    /\ duration \in 0..MaxTicks
    /\ time_factor \in 0..1
    /\ charging \in BOOLEAN
    /\ Len(mode_history) = time - 1
    /\ Len(charging_history) = time - 1

\* ---- properties -----------------------------------------------------------

\* The index of the last executed tick and the set of executed ticks.
LastTick == Len(mode_history)

Ticks == 1..Len(mode_history)

\* The two stop conditions as the properties state them, for a charge level c
\* observed at the end of tick t.
FullCond(c) == c + charge_speed_per_tick > battery_capacity

SufficientCond(c, t) == c > (duration - t) * energy_usage_per_tick

\* Number of maximal contiguous runs of charging ticks in a mode sequence.
ChargingRuns(m) ==
    Cardinality({k \in 1..Len(m) :
                    m[k] = "charge" /\ (k = 1 \/ m[k - 1] = "drive")})

\* The last executed tick t was a charging tick and another tick follows
\* (t < N).
AfterChargingTick ==
    /\ pc = "loop"
    /\ LastTick >= 1
    /\ time <= duration
    /\ mode_history[LastTick] = "charge"

\* C1: for total_ticks = N the loop of Simulation.start terminates, and at
\* termination Car.tick has been called exactly N times and the three
\* histories have length N, the tick indices being 1, 2, ..., N in order.
C1_Termination ==
    /\ <>(pc = "done")
    /\ [](pc = "done" =>
            /\ Len(mode_history) = duration
            /\ Len(time_history) = duration
            /\ Len(charge_level_history) = duration
            /\ Len(distance_driven_history) = duration
            /\ \A i \in 1..duration : time_history[i] = i)

C1_Witness ==
    /\ pc = "done"
    /\ duration >= 3
    /\ time_history = [i \in 1..duration |-> i]
    /\ \E k \in Ticks : mode_history[k] = "charge"

\* C2 (as stated): after any number of ticks number_of_charging_stops equals
\* the number of maximal contiguous runs of charging ticks executed so far.
C2_StopsEqualRuns ==
    number_of_charging_stops = ChargingRuns(mode_history)

\* C3: if tick t < N is a charging tick after which neither the fully-charged
\* nor the sufficiently-charged condition holds, tick t+1 is a charging tick.
C3_ModeConsistency ==
    [][(/\ AfterChargingTick
        /\ ~FullCond(battery_charge)
        /\ ~SufficientCond(battery_charge, LastTick))
       => (/\ Len(mode_history') = LastTick + 1
           /\ mode_history'[LastTick + 1] = "charge")]_vars

C3_Witness ==
    \E t \in Ticks :
        /\ t + 1 \in Ticks
        /\ mode_history[t] = "charge"
        /\ ~FullCond(charge_level_history[t])
        /\ ~SufficientCond(charge_level_history[t], t)
        /\ mode_history[t + 1] = "charge"

C5_NoChargingNeeded ==
    (duration * energy_usage_per_tick < battery_capacity)
    => (/\ \A k \in Ticks : mode_history[k] = "drive"
        /\ number_of_charging_stops = 0
        /\ (pc = "done" =>
              /\ LastTick = duration
              /\ distance_driven = duration * distance_per_tick))

C5_Witness ==
    /\ pc = "done"
    /\ duration >= 2
    /\ duration * energy_usage_per_tick < battery_capacity
    /\ distance_driven = duration * distance_per_tick

\* C6: if N * energy_usage_per_tick >= battery_capacity, then at the end of
\* the run number_of_charging_stops >= 1 and distance_driven is strictly
\* less than N * distance_per_tick.
C6_ChargingNeeded ==
    (pc = "done" /\ duration * energy_usage_per_tick >= battery_capacity)
    => (/\ number_of_charging_stops >= 1
        /\ distance_driven < duration * distance_per_tick)

C6_Witness ==
    /\ pc = "done"
    /\ duration * energy_usage_per_tick = battery_capacity
    /\ number_of_charging_stops = 1
    /\ distance_driven > 0

\* Some charging tick t executed so far ended with the sufficiently-charged
\* condition battery_charge > (N - t) * energy_usage_per_tick.
SufficientReached ==
    \E t \in Ticks :
        /\ mode_history[t] = "charge"
        /\ SufficientCond(charge_level_history[t], time_history[t])

\* C7: once the sufficiently-charged condition has held at the end of a
\* charging tick, every later tick is a driving tick and
\* number_of_charging_stops no longer changes.
C7_SufficientMeansDriveToEnd ==
    [][SufficientReached
       => (/\ number_of_charging_stops' = number_of_charging_stops
           /\ charging' = FALSE
           /\ (Len(mode_history') > Len(mode_history)
                 => mode_history'[Len(mode_history')] = "drive"))]_vars

C7_Witness ==
    /\ pc = "done"
    /\ \E t \in Ticks :
          /\ t + 1 <= duration
          /\ mode_history[t] = "charge"
          /\ SufficientCond(charge_level_history[t], t)
          /\ ~FullCond(charge_level_history[t])
          /\ \A k \in (t + 1)..duration : mode_history[k] = "drive"

\* C8 (as stated): in every reachable state
\* battery_charge <= battery_capacity + charge_speed_per_tick.
C8_ChargeBound ==
    battery_charge <= battery_capacity + charge_speed_per_tick

\* C9: in every reachable state battery_charge >= 0; a driving tick is taken
\* only when battery_charge - energy_usage_per_tick > 0 before it, so the
\* level recorded after a driving tick is positive.
C9_ChargeNonNegative ==
    /\ battery_charge >= 0
    /\ \A k \in Ticks :
          /\ charge_level_history[k] >= 0
          /\ (mode_history[k] = "drive" => charge_level_history[k] > 0)

C9_Witness ==
    \E k \in Ticks :
        /\ k + 1 \in Ticks
        /\ mode_history[k] = "drive"
        /\ charge_level_history[k] = 1
        /\ energy_usage_per_tick > 1
        /\ mode_history[k + 1] = "charge"

\* C10: distance_driven never decreases in a step, and the recorded distance
\* series is non-decreasing in tick order.
C10_DistanceMonotonic ==
    [][/\ distance_driven' >= distance_driven
       /\ \A i, j \in 1..Len(distance_driven_history') :
             i <= j => distance_driven_history'[i]
                         <= distance_driven_history'[j]]_vars

C10_Witness ==
    \E k \in Ticks :
        /\ k + 2 \in Ticks
        /\ distance_driven_history[k] < distance_driven_history[k + 1]
        /\ distance_driven_history[k + 1] = distance_driven_history[k + 2]
        /\ distance_driven = distance_driven_history[LastTick]

\* A step that executes one tick, and the mode of the tick it executes.
TickTaken == Len(mode_history') = Len(mode_history) + 1

ChargingTickTaken == TickTaken /\ mode_history'[Len(mode_history')] = "charge"

DrivingTickTaken == TickTaken /\ mode_history'[Len(mode_history')] = "drive"

\* C11: battery_charge_total never decreases; a driving tick (and any step
\* that is not a tick) leaves it unchanged, a charging tick adds exactly
\* charge_speed_per_tick.
C11_TotalChargeMonotonic ==
    [][/\ battery_charge_total' >= battery_charge_total
       /\ (DrivingTickTaken => battery_charge_total' = battery_charge_total)
       /\ (~TickTaken => battery_charge_total' = battery_charge_total)
       /\ (ChargingTickTaken =>
             battery_charge_total' =
                 battery_charge_total + charge_speed_per_tick)]_vars

C11_Witness ==
    \E k \in Ticks :
        /\ k + 1 \in Ticks
        /\ mode_history[k] = "charge"
        /\ mode_history[k + 1] = "drive"
        /\ battery_charge_total > battery_capacity

\* C1 (as stated, as a condition on the state in which start() has ended):
\* for every N >= 0 start() ends by leaving its loop, after exactly N calls
\* of Car.tick, with N entries in each history and tick indices 1..N.
C1_RunEndsAtLoopExit ==
    (pc \in {"done", "error"})
    => (/\ pc = "done"
        /\ Len(mode_history) = duration
        /\ Len(time_history) = duration
        /\ Len(charge_level_history) = duration
        /\ Len(distance_driven_history) = duration
        /\ \A i \in 1..duration : time_history[i] = i)

\* C12 (as stated): whenever distance_driven is 0 the report is produced
\* without a division error and its energy_per_km is 0; otherwise
\* energy_per_km is (battery_charge_total - battery_charge) / distance_driven.
C12_SummarySafeOnZeroDistance ==
    /\ (distance_driven = 0
          => /\ status_text(duration).ok
             /\ status_text(duration).energy_per_km.num = 0)
    /\ (distance_driven # 0
          => /\ energy_per_km.ok
             /\ energy_per_km.num = battery_charge_total - battery_charge
             /\ energy_per_km.den = distance_driven)

\* The configurations C13 calls invalid: a tick fraction of 0, or a
\* non-positive speed (distance_per_tick is speed * time_factor, line 41).
InvalidConfig == time_factor = 0 \/ distance_per_tick <= 0

\* C13 (as stated): an invalid configuration is rejected at construction, so
\* no tick is ever executed with it and no division by zero is reached in
\* reporting.
C13_InvalidConfigRejected ==
    InvalidConfig => (mode_history = <<>> /\ pc \notin {"loop", "error"})

\* The ticks that entered Car.charge with the charging flag false.
EnteredCharging ==
    {k \in Ticks :
        mode_history[k] = "charge" /\ (k = 1 \/ ~charging_history[k - 1])}

\* C15: number_of_charging_stops grows by exactly 1 on a charging tick that
\* starts with the charging flag false and is unchanged in every other step,
\* so it equals the number of ticks that entered charging from a
\* not-charging flag state.
C15_StopsCountEntries ==
    [][/\ ((ChargingTickTaken /\ ~charging)
             => number_of_charging_stops' = number_of_charging_stops + 1)
       /\ (~(ChargingTickTaken /\ ~charging)
             => number_of_charging_stops' = number_of_charging_stops)
       /\ number_of_charging_stops' = Cardinality(EnteredCharging')]_vars

C15_Witness ==
    /\ number_of_charging_stops >= 2
    /\ \E k \in Ticks :
          /\ k > 1
          /\ mode_history[k] = "charge"
          /\ charging_history[k - 1]

\* C16: every tick, driving or charging, appends exactly one entry to each
\* history, holding the tick index and the values of battery_charge and
\* distance_driven after the tick's effect; no other step and no tick changes
\* an existing entry, and the car's state changes only in ticks.
C16_HistoryRecordsPostState ==
    [][/\ (TickTaken =>
             /\ time_history' = Append(time_history, time)
             /\ charge_level_history' =
                    Append(charge_level_history, battery_charge')
             /\ distance_driven_history' =
                    Append(distance_driven_history, distance_driven'))
       /\ (~TickTaken =>
             UNCHANGED <<time_history, charge_level_history,
                         distance_driven_history, battery_charge,
                         distance_driven>>)
       /\ (time' # time => TickTaken)]_vars

C16_Witness ==
    /\ LastTick >= 3
    /\ \E j, k \in Ticks : mode_history[j] = "charge" /\ mode_history[k] = "drive"
    /\ Len(charge_level_history) = LastTick
    /\ charge_level_history[LastTick] = battery_charge
    /\ distance_driven_history[LastTick] = distance_driven
    /\ charge_level_history[LastTick] # charge_level_history[LastTick - 1]

\* The driving ticks and the charging ticks executed so far.
DrivingTicks == {k \in Ticks : mode_history[k] = "drive"}

ChargingTicks == {k \in Ticks : mode_history[k] = "charge"}

\* C17: with d driving ticks and c charging ticks so far,
\* distance_driven = d * distance_per_tick,
\* battery_charge_total = battery_capacity + c * charge_speed_per_tick and
\* battery_charge_total - battery_charge = d * energy_usage_per_tick; so when
\* d > 0 energy_per_km is energy_usage_per_tick / distance_per_tick.
C17_EnergyBookkeeping ==
    LET d == Cardinality(DrivingTicks)
        c == Cardinality(ChargingTicks)
    IN  /\ distance_driven = d * distance_per_tick
        /\ battery_charge_total = battery_capacity + c * charge_speed_per_tick
        /\ battery_charge_total - battery_charge = d * energy_usage_per_tick
        /\ (d > 0 =>
              /\ energy_per_km.ok
              /\ energy_per_km.num * distance_per_tick
                     = energy_usage_per_tick * energy_per_km.den)

C17_Witness ==
    /\ Cardinality(DrivingTicks) >= 2
    /\ Cardinality(ChargingTicks) >= 2
    /\ energy_per_km.den = distance_driven
    /\ energy_per_km.num > energy_usage_per_tick

\* C18: whenever the charging flag is true after tick t, both stop conditions
\* are false for the charge level reached: battery_charge +
\* charge_speed_per_tick <= battery_capacity and battery_charge <= (N - t) *
\* energy_usage_per_tick; and the flag is never true after more than
\* battery_capacity / charge_speed_per_tick consecutive ticks.
C18_FlagImpliesNoStopCondition ==
    /\ charging =>
          /\ LastTick >= 1
          /\ ~FullCond(battery_charge)
          /\ ~SufficientCond(battery_charge, LastTick)
    /\ \A t \in Ticks :
          charging_history[t] =>
              /\ charge_level_history[t] + charge_speed_per_tick
                     <= battery_capacity
              /\ charge_level_history[t]
                     <= (duration - t) * energy_usage_per_tick
    /\ \A i, j \in Ticks :
          (i <= j /\ \A k \in i..j : charging_history[k])
              => (j - i + 1) * charge_speed_per_tick <= battery_capacity

C18_Witness ==
    \E t \in Ticks :
        /\ t + 2 \in Ticks
        /\ charging_history[t]
        /\ charging_history[t + 1]
        /\ ~charging_history[t + 2]
        /\ mode_history[t + 2] = "charge"

\* C19: a charging tick adds charge_speed_per_tick to battery_charge and
\* leaves distance_driven unchanged; a driving tick takes
\* energy_usage_per_tick from battery_charge, adds distance_per_tick to
\* distance_driven and leaves battery_charge_total, number_of_charging_stops
\* and the charging flag unchanged; no step changes battery_capacity,
\* energy_usage_per_tick, charge_speed_per_tick or distance_per_tick.
C19_TickFrame ==
    [][/\ (ChargingTickTaken =>
             /\ battery_charge' = battery_charge + charge_speed_per_tick
             /\ distance_driven' = distance_driven)
       /\ (DrivingTickTaken =>
             /\ battery_charge' = battery_charge - energy_usage_per_tick
             /\ distance_driven' = distance_driven + distance_per_tick
             /\ UNCHANGED <<battery_charge_total, number_of_charging_stops,
                            charging>>)
       /\ UNCHANGED <<battery_capacity, energy_usage_per_tick,
                      charge_speed_per_tick, distance_per_tick>>]_vars

C19_Witness ==
    \E k \in Ticks :
        /\ k + 1 \in Ticks
        /\ mode_history[k] = "drive"
        /\ mode_history[k + 1] = "charge"
        /\ distance_driven_history[k + 1] = distance_driven_history[k]
        /\ battery_charge_total > battery_capacity
        /\ number_of_charging_stops >= 1

=============================================================================
